---- MODULE Spec2Model ----
(***************************************************************************)
(* Model of the segments package: the grapheme tree (segments/tree.py),    *)
(* the error handlers (segments/errors.py), the orthography profile        *)
(* (segments/profile.py) and the Tokenizer (segments/tokenizer.py).        *)
(*                                                                         *)
(* Strings are sequences of Unicode code points (naturals); a token list   *)
(* is a sequence of strings.                                               *)
(***************************************************************************)
EXTENDS Integers, Sequences, FiniteSets, TLC

\* ------------------------------------------------------------------ bounds
\* Longest word handed to Tree.parse.
MaxWordLen == 3
\* Longest grapheme registered in a Tree.
MaxGraphemeLen == 2
\* Largest grapheme inventory a Tree is built from.
MaxGraphemes == 3
\* Most grapheme specifications handed to Profile(*specs).
MaxSpecs == 3
\* Longest text handed to Profile.from_text.
MaxTextLen == 4
\* Longest string handed to a Tokenizer call.
MaxStringLen == 4
\* Longest string handed to a Tokenizer call whose ipa keyword varies.
MaxModeLen == 4
\* Most rules in a Rules object, and the longest string handed to Rules.apply.
MaxRules == 2
MaxSubjectLen == 4
\* Longest string handed to a Tokenizer call in IPA mode.
MaxIPALen == 4
\* Longest line handed to Tree.parse when its loop is followed step by step.
MaxLoopLen == 3
\* Longest string with tie bars handed to a Tokenizer call in IPA mode.
MaxTieLen == 5

\* ------------------------------------------------------------- code points
\* 'a', 'b': the code points graphemes are made of
GraphemeAlphabet == {97, 98}
\* 'a', 'b', 'c': the code points words are made of ('c' is in no grapheme)
Alphabet == GraphemeAlphabet \cup {99}
\* the marker as util.py spells it: U+00EF U+00BF U+00BD
REPLACEMENT_MARKER == <<239, 191, 189>>
\* '#', what the handler  lambda c: '#'  of tests/test_tree.py returns
HASH == <<35>>

\* ---------------------------------------------------------------- helpers
StringsUpTo(S, n) == UNION {[1..k -> S] : k \in 0..n}

RECURSIVE Concat(_)
Concat(tokens) ==
    IF tokens = <<>> THEN <<>> ELSE Head(tokens) \o Concat(Tail(tokens))

IsPrefix(g, s) == Len(g) <= Len(s) /\ SubSeq(s, 1, Len(g)) = g

Drop(s, n) == SubSeq(s, n + 1, Len(s))

\* ----------------------------------------------------------------- state
VARIABLES
    graphemes,  \* the grapheme list a Tree was built from
    tree,       \* the Tree: its nodes (paths from the root) and terminal markers
    line,       \* the argument of the Tree.parse call in progress
    error,      \* the error handler of that call
    ret,        \* what the call produced
    tpc,        \* "idle" | "returned" | "raised"
    specs,      \* the specification mappings a caller of Profile(*specs) holds
    text,       \* the text a caller of Profile.from_text holds
    args,       \* the specifications as they were when the constructor was entered
    form,       \* the form keyword of the construction in progress
    via,        \* how it was asked for: "Profile" | "from_text" ("none" when idle)
    prf,        \* what the construction produced
    ppc,        \* "idle" | "constructed" | "raised"
    config,     \* what a Tokenizer is to be made of: no profile, or the specs of one
    tk,         \* the Tokenizer
    string,     \* the argument of the Tokenizer call in progress
    column,     \* its column keyword
    errors,     \* its errors keyword
    ipa,        \* its ipa keyword
    out,        \* what the call produced
    kpc,        \* "none" | "new" | "failed" | "idle" | "returned" | "raised"
    rules,      \* the (pattern, replacement) list of a Rules object
    subject,    \* the argument of the Rules.apply call in progress
    passed,     \* the value of s after each substitution pass of that call
    applied,    \* what the call returned
    rpc,        \* "idle" | "returned"
    inflight,   \* the Tokenizer calls in progress, one record per caller
    remainder,  \* the remainder of the line in the while loop of Tree.parse
    heap,       \* the 'url' entry of each table dict there is, by the dict's identity
    held        \* the results of default_metadata a caller holds, oldest first

treeVars == <<graphemes, tree, line, error, ret, tpc>>
profileVars == <<specs, text, args, form, via, prf, ppc>>
tokenizerVars == <<config, tk, string, column, errors, ipa, out, kpc>>
rulesVars == <<rules, subject, passed, applied, rpc>>
callVars == <<inflight>>
loopVars == <<remainder>>
metaVars == <<heap, held>>
vars == <<treeVars, profileVars, tokenizerVars, rulesVars, callVars, loopVars, metaVars>>

\* ------------------------------------------------------------ errors.py
\* Mutant of strict: the marker is returned instead of raising.
strict_marker(c) == [raised |-> FALSE, value |-> REPLACEMENT_MARKER]
strict(c) == [raised |-> TRUE, value |-> <<>>]
replace(c) == [raised |-> FALSE, value |-> REPLACEMENT_MARKER]
\* Mutant of ignore: the code point is passed through instead of dropped.
ignore_keep(c) == [raised |-> FALSE, value |-> <<c>>]
ignore(c) == [raised |-> FALSE, value |-> <<>>]
\* the custom handlers: lambda c: '#' and lambda c: c
hash(c) == [raised |-> FALSE, value |-> HASH]
ident(c) == [raised |-> FALSE, value |-> <<c>>]

Handlers == {"strict", "replace", "ignore", "hash", "ident"}

\* error(c) for a handler named by h
CallHandler(h, c) ==
    CASE h = "strict" -> strict(c)
      [] h = "replace" -> replace(c)
      [] h = "ignore" -> ignore(c)
      [] h = "hash" -> hash(c)
      [] h = "ident" -> ident(c)

\* -------------------------------------------------------------- tree.py
\* _multigraph: the nodes on the path of one grapheme; a node is named by its
\* path from the root.
_multigraph(grapheme) == {SubSeq(grapheme, 1, k) : k \in 0..Len(grapheme)}

\* Tree.__init__: the root (a sentinel) and one path per grapheme, whose last
\* node is made a sentinel.
Tree(gs) ==
    [nodes |-> {<<>>} \cup UNION {_multigraph(g) : g \in gs},
     sentinel |-> {<<>>} \cup gs]

RECURSIVE _parse(_, _, _)
RECURSIVE _walk(_, _, _, _, _, _, _)

\* Mutant of _walk: the walk stops at the first sentinel (shortest match).
_walk_first(t, ln, idx, curr, node, parse, cidx) ==
    IF curr >= Len(ln)
    THEN [parse |-> parse, cidx |-> cidx]
    ELSE LET child == Append(node, ln[curr + 1])
             curr1 == curr + 1
         IN  IF child \notin t.nodes
             THEN [parse |-> parse, cidx |-> cidx]
             ELSE IF child \in t.sentinel
                  THEN LET sub == _parse(t, Drop(ln, curr1), idx + curr1)
                       IN  [parse |-> <<SubSeq(ln, 1, curr1)>> \o sub.parse,
                            cidx |-> sub.idx]
                  ELSE _walk(t, ln, idx, curr1, child, parse, cidx)

\* Mutant of _walk: a later sentinel replaces the parse kept so far only when it
\* and its subparse consume more code points (backtracking on the remainder).
_walk_most(t, ln, idx, curr, node, parse, cidx) ==
    IF curr >= Len(ln)
    THEN [parse |-> parse, cidx |-> cidx]
    ELSE LET child == Append(node, ln[curr + 1])
             curr1 == curr + 1
         IN  IF child \notin t.nodes
             THEN [parse |-> parse, cidx |-> cidx]
             ELSE IF child \in t.sentinel
                  THEN LET sub == _parse(t, Drop(ln, curr1), idx + curr1)
                       IN  IF parse = <<>> \/ sub.idx > cidx
                           THEN _walk(t, ln, idx, curr1, child,
                                      <<SubSeq(ln, 1, curr1)>> \o sub.parse, sub.idx)
                           ELSE _walk(t, ln, idx, curr1, child, parse, cidx)
                  ELSE _walk(t, ln, idx, curr1, child, parse, cidx)

\* The while loop of Tree._parse: curr code points of line are consumed, node is
\* the node reached, parse and cidx are what the last sentinel left.
_walk(t, ln, idx, curr, node, parse, cidx) ==
    IF curr >= Len(ln)
    THEN [parse |-> parse, cidx |-> cidx]
    ELSE LET child == Append(node, ln[curr + 1])
             curr1 == curr + 1
         IN  IF child \notin t.nodes
             THEN [parse |-> parse, cidx |-> cidx]
             ELSE IF child \in t.sentinel
                  THEN LET sub == _parse(t, Drop(ln, curr1), idx + curr1)
                       IN  _walk(t, ln, idx, curr1, child,
                                 <<SubSeq(ln, 1, curr1)>> \o sub.parse, sub.idx)
                  ELSE _walk(t, ln, idx, curr1, child, parse, cidx)

\* Mutant of _parse: the character count is not advanced to cidx.
_parse_noidx(t, ln, idx) ==
    IF Len(ln) = 0
    THEN [parse |-> <<>>, idx |-> idx]
    ELSE LET w == _walk(t, ln, idx, 0, <<>>, <<>>, idx)
         IN  [parse |-> w.parse, idx |-> idx]

\* Tree._parse: (list of parsed graphemes, incremented character count)
_parse(t, ln, idx) ==
    IF Len(ln) = 0
    THEN [parse |-> <<>>, idx |-> idx]
    ELSE LET w == _walk(t, ln, idx, 0, <<>>, <<>>, idx)
         IN  [parse |-> w.parse,
              idx |-> IF w.parse # <<>> THEN w.cidx ELSE idx]

RECURSIVE _loop(_, _, _, _, _)

\* Mutant of _loop: after the first failure nothing is matched any more, every
\* remaining code point goes to the handler.
_loop_noresume(t, h, res, rem, calls) ==
    IF rem = <<>>
    THEN [raised |-> FALSE, res |-> res, calls |-> calls]
    ELSE LET e == CallHandler(h, rem[1])
         IN  IF e.raised
             THEN [raised |-> TRUE, res |-> <<>>, calls |-> Append(calls, rem[1])]
             ELSE _loop(t, h, Append(res, e.value), Tail(rem), Append(calls, rem[1]))

\* The while loop of Tree.parse. calls lists the code points the handler was
\* invoked on, in order. A raising handler ends the call without a result.
_loop(t, h, res, rem, calls) ==
    IF rem = <<>>
    THEN [raised |-> FALSE, res |-> res, calls |-> calls]
    ELSE LET e == CallHandler(h, rem[1])
             rem1 == Tail(rem)
             r == _parse(t, rem1, 0)
         IN  IF e.raised
             THEN [raised |-> TRUE, res |-> <<>>, calls |-> Append(calls, rem[1])]
             ELSE _loop(t, h, Append(res, e.value) \o r.parse,
                        Drop(rem1, r.idx), Append(calls, rem[1]))

\* Mutant of _loop_body: the unmatched code point is not chopped off the
\* remainder before the remainder is parsed again.
_loop_body_keep(t, h, res, rm, calls) ==
    LET e == CallHandler(h, rm[1])
        r == _parse(t, rm, 0)
    IN  IF e.raised
        THEN [raised |-> TRUE, res |-> <<>>, rem |-> rm, calls |-> Append(calls, rm[1])]
        ELSE [raised |-> FALSE, res |-> Append(res, e.value) \o r.parse,
              rem |-> Drop(rm, r.idx), calls |-> Append(calls, rm[1])]

\* One iteration of the while loop of Tree.parse (rm is not empty):
\* res.append(error(rem[0])); rem = rem[1:]; r, i = self._parse(self.root, rem, 0);
\* res.extend(r); rem = rem[i:]
_loop_body(t, h, res, rm, calls) ==
    LET e == CallHandler(h, rm[1])
        rem1 == Tail(rm)
        r == _parse(t, rem1, 0)
    IN  IF e.raised
        THEN [raised |-> TRUE, res |-> <<>>, rem |-> rm, calls |-> Append(calls, rm[1])]
        ELSE [raised |-> FALSE, res |-> Append(res, e.value) \o r.parse,
              rem |-> Drop(rem1, r.idx), calls |-> Append(calls, rm[1])]

\* The lines _parse(root, ln, idx) hands to its recursive calls: line[curr:] for
\* every curr at which the walk from the root is on a sentinel node.
_parse_sublines(t, ln) ==
    {Drop(ln, curr) : curr \in {c \in 1..Len(ln) :
        /\ \A b \in 1..c : SubSeq(ln, 1, b) \in t.nodes
        /\ SubSeq(ln, 1, c) \in t.sentinel}}

\* Tree.parse
parse(t, ln, h) ==
    LET first == _parse(t, ln, 0)
    IN  _loop(t, h, first.parse, Drop(ln, first.idx), <<>>)

\* -------------------------------------------------------------- util.py
\* unicodedata's canonical decomposition of one code point: U+00E4 is
\* U+0061 U+0308, the other code points of the model have none.
Decomposition(c) == IF c = 228 THEN <<97, 776>> ELSE <<c>>

RECURSIVE Decompose(_)
Decompose(s) ==
    IF s = <<>> THEN <<>> ELSE Decomposition(Head(s)) \o Decompose(Tail(s))

\* The canonical combining class of a code point: 230 for U+0308, 233 for
\* U+035C, 234 for U+0361, 0 for the other code points of the model.
combining(c) ==
    IF c = 776 THEN 230 ELSE IF c = 860 THEN 233 ELSE IF c = 865 THEN 234 ELSE 0

\* The canonical ordering: while a mark stands right behind a mark of a higher
\* class, the two are exchanged.
RECURSIVE Reorder(_)
Reorder(s) ==
    LET bad == {i \in 1..(Len(s) - 1) :
                    combining(s[i + 1]) > 0 /\ combining(s[i]) > combining(s[i + 1])}
    IN  IF bad = {} THEN s
        ELSE LET i == CHOOSE i \in bad : \A j \in bad : i <= j
             IN  Reorder([s EXCEPT ![i] = s[i + 1], ![i + 1] = s[i]])

NFD(s) == Reorder(Decompose(s))

\* unicodedata's canonical composition of a decomposed string.
RECURSIVE Compose(_)
Compose(s) ==
    IF Len(s) < 2 THEN s
    ELSE IF s[1] = 97 /\ s[2] = 776 THEN <<228>> \o Compose(Drop(s, 2))
    ELSE <<s[1]>> \o Compose(Tail(s))

NFC(s) == Compose(NFD(s))

\* unicodedata.normalize(form, s)
normalize(f, s) == IF f = "NFD" THEN NFD(s) ELSE NFC(s)

\* Mutant of nfd: the string is left as it is.
nfd_asis(s) == s

\* nfd = partial(unicodedata.normalize, 'NFD')
nfd(s) == normalize("NFD", s)

\* Grapheme_Extend code points: a cluster never breaks before them (U+0308, and
\* the tie bars U+035C and U+0361).
Extend == {776, 860, 865}

\* How many code points the grapheme cluster at the head of s has (s not empty).
RECURSIVE ClusterLen(_, _)
ClusterLen(s, n) ==
    IF n < Len(s) /\ s[n + 1] \in Extend THEN ClusterLen(s, n + 1) ELSE n

\* grapheme_pattern.findall(s): the extended grapheme clusters of s, in order.
RECURSIVE grapheme_pattern_findall(_)
grapheme_pattern_findall(s) ==
    IF s = <<>> THEN <<>>
    ELSE LET n == ClusterLen(s, 1)
         IN  <<SubSeq(s, 1, n)>> \o grapheme_pattern_findall(Drop(s, n))

\* ------------------------------------------------------------ profile.py
\* 'Grapheme'
GRAPHEME_COL == <<71, 114, 97, 112, 104, 101, 109, 101>>
\* 'frequency', 'mapping': the columns from_text writes
FREQUENCY == <<102, 114, 101, 113, 117, 101, 110, 99, 121>>
MAPPING == <<109, 97, 112, 112, 105, 110, 103>>

\* Attribute values: None, a string, a list of strings, an int.
None == [t |-> "none", v |-> <<>>]
Str(s) == [t |-> "str", v |-> <<s>>]
List(l) == [t |-> "list", v |-> l]
Num(n) == [t |-> "int", v |-> <<<<n>>>>]

\* Python's  not value
Falsy(val) ==
    \/ val.t = "none"
    \/ val.t = "str" /\ val.v[1] = <<>>
    \/ val.t = "list" /\ val.v = <<>>
    \/ val.t = "int" /\ val.v[1][1] = 0

\* A dict is a function from its keys; d without key k (dict.pop).
Without(d, k) == [x \in (DOMAIN d) \ {k} |-> d[x]]

Range(f) == {f[x] : x \in DOMAIN f}

\* Whether  {normalize(form, k): None if v is None else normalize(form, v) ...}
\* raises TypeError: unicodedata.normalize accepts str only.
NormalizeRaises(spec) == \E k \in DOMAIN spec : spec[k].t \in {"list", "int"}

\* That dict comprehension, for a spec it does not raise on.
NormalizeSpec(f, spec) ==
    [nk \in {normalize(f, k) : k \in DOMAIN spec} |->
        LET val == spec[CHOOSE k \in DOMAIN spec : normalize(f, k) = nk]
        IN  IF val.t = "none" THEN None ELSE Str(normalize(f, val.v[1]))]

\* What the constructor leaves when it raises exc: no Profile, the warnings
\* already logged, and the caller's mappings as they are by then.
ProfileRaised(exc, acc) ==
    [raised |-> exc, graphemes |-> <<>>, attrs |-> <<>>, column_labels |-> {},
     tree |-> Tree({}), warnings |-> acc.warnings, caller |-> acc.caller]

\* The body of  for i, spec in enumerate(specs)  for the specification at i
\* (1-based here, so the warning's  i + 2  is  i + 1).
RECURSIVE ProfileLoop(_, _, _)
ProfileLoop(f, i, acc) ==
    IF i > Len(acc.caller)
    THEN [raised |-> "none", graphemes |-> acc.graphemes, attrs |-> acc.attrs,
          column_labels |-> acc.column_labels,
          tree |-> Tree(Range(acc.graphemes)),
          warnings |-> acc.warnings, caller |-> acc.caller]
    ELSE LET given == acc.caller[i]
         IN  IF GRAPHEME_COL \notin DOMAIN given
             THEN ProfileRaised("ValueError", acc)
             ELSE IF f # "None" /\ NormalizeRaises(given)
             THEN ProfileRaised("TypeError", acc)
             ELSE LET spec == IF f # "None" THEN NormalizeSpec(f, given) ELSE given
                      grapheme == spec[GRAPHEME_COL]
                      popped == Without(spec, GRAPHEME_COL)
                      \* spec.pop acts on the caller's mapping unless a
                      \* normalized copy was made
                      acc1 == IF f # "None" THEN acc
                              ELSE [acc EXCEPT !.caller[i] = popped]
                  IN  IF Falsy(grapheme)
                      THEN ProfileRaised("ValueError", acc1)
                      ELSE LET g == grapheme.v[1]
                               labels == acc1.column_labels \cup DOMAIN popped
                           IN  IF g \notin Range(acc1.graphemes)
                               THEN ProfileLoop(f, i + 1,
                                        [acc1 EXCEPT
                                            !.graphemes = Append(@, g),
                                            !.attrs = (g :> popped) @@ @,
                                            !.column_labels = labels])
                               ELSE ProfileLoop(f, i + 1,
                                        [acc1 EXCEPT
                                            !.column_labels = labels,
                                            !.warnings = Append(@,
                                                [line |-> i + 1, grapheme |-> g])])

\* Profile.__init__(*specs, form=f)
Profile(given, f) ==
    ProfileLoop(f, 1,
        [graphemes |-> <<>>, attrs |-> <<>>, column_labels |-> {},
         warnings |-> <<>>, caller |-> given])

\* Profile.MD: a dict whose 'tables' entry is a list of one table dict. The
\* model keeps the identity of that table dict in the mapping and the table's
\* 'url' entry on the heap (None: the table has no 'url' entry).
MD == [tables |-> "MD.tables[0]"]
MDHeap == [a \in {MD.tables} |-> None]

\* copy.copy(d): a new dict with the entries of d; the values are the same
\* objects, so the 'tables' entry of the copy is the list of d.
copy_copy(d) == d

\* str(fname or '')
str_or_empty(fname) == IF Falsy(fname) THEN <<>> ELSE fname.v[1]

\* Profile.default_metadata(fname) on heap h: the mapping returned, and the
\* heap after  md['tables'][0]['url'] = str(fname or '').
default_metadata(fname, h) ==
    LET md == copy_copy(MD)
    IN  [md |-> md, heap |-> [h EXCEPT ![md.tables] = Str(str_or_empty(fname))]]

\* collections.Counter(clusters): the distinct clusters in order of first
\* occurrence, each with its number of occurrences.
RECURSIVE Distinct(_)
Distinct(xs) ==
    IF xs = <<>> THEN <<>>
    ELSE LET init == Distinct(SubSeq(xs, 1, Len(xs) - 1))
             last == xs[Len(xs)]
         IN  IF last \in Range(init) THEN init ELSE Append(init, last)

Counter(xs) ==
    LET keys == Distinct(xs)
    IN  [i \in 1..Len(keys) |->
            [key |-> keys[i],
             count |-> Cardinality({j \in 1..Len(xs) : xs[j] = keys[i]})]]

\* Mutant of most_common: the items are left in order of first occurrence.
most_common_unsorted(items) == items

\* Counter.most_common(): sorted(items, key=count, reverse=True), a stable sort:
\* the first item with the largest count, then the rest in the same way.
RECURSIVE most_common(_)
most_common(items) ==
    IF items = <<>> THEN <<>>
    ELSE LET top == CHOOSE i \in 1..Len(items) :
                        /\ \A j \in 1..Len(items) : items[j].count <= items[i].count
                        /\ \A j \in 1..(i - 1) : items[j].count < items[i].count
         IN  <<items[top]>>
                \o most_common(SubSeq(items, 1, top - 1)
                                \o SubSeq(items, top + 1, Len(items)))

\* The specs Profile.from_text builds, with mapping='mapping'.
from_text_specs(txt) ==
    LET common == most_common(Counter(grapheme_pattern_findall(txt)))
    IN  [i \in 1..Len(common) |->
            (GRAPHEME_COL :> Str(common[i].key))
            @@ (FREQUENCY :> Num(common[i].count))
            @@ (MAPPING :> Str(common[i].key))]

\* Profile.from_text(text)
from_text(txt) == Profile(from_text_specs(txt), "None")

\* --------------------------------------------------------- tokenizer.py
\* str.split() and str.strip() act on the code points str.isspace() holds for
\* (those below U+0100).
Whitespace == {9, 10, 11, 12, 13, 28, 29, 30, 31, 32, 133, 160}

\* 'NULL'
NULL == <<78, 85, 76, 76>>
\* the defaults of __call__: segment_separator=' ', separator=' # '
SEGMENT_SEPARATOR == <<32>>
SEPARATOR == <<32, 35, 32>>

\* The body of  for i, spec in enumerate(specs)  of tokenizer.py's own Profile:
\* the column labels are the keys of the first specification, a duplicate
\* grapheme is listed once, and its mappings are those of the last occurrence.
RECURSIVE tokenizer_ProfileLoop(_, _, _)
tokenizer_ProfileLoop(sp, i, acc) ==
    IF i > Len(sp)
    THEN [raised |-> "none", graphemes |-> acc.graphemes, mappings |-> acc.mappings,
          column_labels |-> acc.column_labels, tree |-> Tree(Range(acc.graphemes))]
    ELSE LET spec == sp[i]
             labels == IF acc.column_labels = {} THEN DOMAIN spec
                       ELSE acc.column_labels
         IN  IF GRAPHEME_COL \notin DOMAIN spec
             THEN [raised |-> "ValueError", graphemes |-> <<>>, mappings |-> <<>>,
                   column_labels |-> {}, tree |-> Tree({})]
             ELSE LET grapheme == spec[GRAPHEME_COL].v[1]
                      new == [p \in {<<grapheme, k>> : k \in (DOMAIN spec) \ {GRAPHEME_COL}}
                                |-> spec[p[2]]]
                  IN  tokenizer_ProfileLoop(sp, i + 1,
                        [graphemes |-> IF grapheme \in Range(acc.graphemes)
                                       THEN acc.graphemes
                                       ELSE Append(acc.graphemes, grapheme),
                         mappings |-> new @@ acc.mappings,
                         column_labels |-> labels])

\* tokenizer.Profile.__init__(*specs)
tokenizer_Profile(sp) ==
    tokenizer_ProfileLoop(sp, 1,
        [graphemes |-> <<>>, mappings |-> <<>>, column_labels |-> {}])

\* Tokenizer.__init__(profile=..., rules=None): self.op is <<>> for None and
\* <<p>> for a Profile p; self._rules is <<>> for None, else the rule list;
\* self._errors names the handler of each policy.
Tokenizer(profile) ==
    [op |-> profile,
     _rules |-> <<>>,
     _errors |-> [strict |-> "strict", replace |-> "replace", ignore |-> "ignore"]]

\* Tokenizer(profile=..., rules=...): self._rules is the rule list of the Rules
\* object made from the rules file.
TokenizerWithRules(profile, rs) == [Tokenizer(profile) EXCEPT !._rules = rs]

RECURSIVE split(_)
RECURSIVE split_space(_)
RECURSIVE WordLen(_, _, _)

\* How many code points at the head of s are outside seps, counted from n.
WordLen(seps, s, n) ==
    IF n < Len(s) /\ s[n + 1] \notin seps THEN WordLen(seps, s, n + 1) ELSE n

\* Mutant of split: only U+0020 separates words.
split_space(s) ==
    IF s = <<>> THEN <<>>
    ELSE IF Head(s) = 32 THEN split(Tail(s))
    ELSE LET n == WordLen({32}, s, 1)
         IN  <<SubSeq(s, 1, n)>> \o split(Drop(s, n))

\* str.split(): skip whitespace, take code points up to the next whitespace.
split(s) ==
    IF s = <<>> THEN <<>>
    ELSE IF Head(s) \in Whitespace THEN split(Tail(s))
    ELSE LET n == WordLen(Whitespace, s, 1)
         IN  <<SubSeq(s, 1, n)>> \o split(Drop(s, n))

\* sep.join(xs)
RECURSIVE join(_, _)
join(sep, xs) ==
    IF xs = <<>> THEN <<>>
    ELSE IF Len(xs) = 1 THEN xs[1]
    ELSE xs[1] \o sep \o join(sep, Tail(xs))

\* str.strip()
RECURSIVE strip(_)
strip(s) ==
    IF s = <<>> THEN <<>>
    ELSE IF s[1] \in Whitespace THEN strip(Tail(s))
    ELSE IF s[Len(s)] \in Whitespace THEN strip(SubSeq(s, 1, Len(s) - 1))
    ELSE s

\* Tokenizer.grapheme_clusters(word)
grapheme_clusters(word) == grapheme_pattern_findall(word)

RECURSIVE transform_out(_, _, _)

\* Mutant of transform_out: of a list only the first element is taken.
transform_out_first(t, word, col) ==
    IF word = <<>> THEN <<>>
    ELSE LET token == Head(word)
             mappings == t.op[1].mappings
             got == IF <<token, col>> \in DOMAIN mappings
                    THEN mappings[<<token, col>>] ELSE None
             target == IF Falsy(got)
                       THEN Str(CallHandler(t._errors.replace, token).value)
                       ELSE got
             rest == transform_out(t, Tail(word), col)
         IN  IF target = Str(NULL) THEN rest
             ELSE <<target.v[1]>> \o rest

\* Mutant of transform_out: a token the column has no value for is dropped.
transform_out_drop(t, word, col) ==
    IF word = <<>> THEN <<>>
    ELSE LET token == Head(word)
             mappings == t.op[1].mappings
             got == IF <<token, col>> \in DOMAIN mappings
                    THEN mappings[<<token, col>>] ELSE None
             rest == transform_out(t, Tail(word), col)
         IN  IF Falsy(got) \/ got = Str(NULL) THEN rest
             ELSE IF got.t = "list" THEN got.v \o rest
             ELSE <<got.v[1]>> \o rest

\* The loop of Tokenizer.transform over the parsed tokens, for a column other
\* than 'Grapheme':  mappings.get((token, column)) or replace(token), dropped if
\* it is NULL, spliced in if it is a list.
transform_out(t, word, col) ==
    IF word = <<>> THEN <<>>
    ELSE LET token == Head(word)
             mappings == t.op[1].mappings
             got == IF <<token, col>> \in DOMAIN mappings
                    THEN mappings[<<token, col>>] ELSE None
             target == IF Falsy(got)
                       THEN Str(CallHandler(t._errors.replace, token).value)
                       ELSE got
             rest == transform_out(t, Tail(word), col)
         IN  IF target = Str(NULL) THEN rest
             ELSE IF target.t = "list" THEN target.v \o rest
             ELSE <<target.v[1]>> \o rest

\* Tokenizer.transform(word, column=col, error=h)
transform(t, word, col, h) ==
    IF col \notin t.op[1].column_labels
    THEN [raised |-> "ValueError", value |-> <<>>]
    ELSE LET p == parse(t.op[1].tree, word, h)
         IN  IF p.raised THEN [raised |-> "ValueError", value |-> <<>>]
             ELSE IF col = GRAPHEME_COL THEN [raised |-> "none", value |-> p.res]
             ELSE [raised |-> "none", value |-> transform_out(t, p.res, col)]

\* unicodedata.category for the code points of the model: modifier letters
\* (U+02B0, U+02B2, U+02C0, U+02C8, U+02CC, U+02D0), modifier symbols (the tone
\* letters U+02E5..U+02E9), nonspacing marks, spaces; a letter otherwise.
Lm == {688, 690, 704, 712, 716, 720}
Sk == {741, 742, 743, 744, 745}
\* Mutant of category: the tone letters are taken for letters.
category_letters(c) ==
    IF c \in Lm THEN "Lm"
    ELSE IF c \in Extend THEN "Mn"
    ELSE IF c \in Whitespace THEN "Zs"
    ELSE "Ll"

category(c) ==
    IF c \in Lm THEN "Lm"
    ELSE IF c \in Sk THEN "Sk"
    ELSE IF c \in Extend THEN "Mn"
    ELSE IF c \in Whitespace THEN "Zs"
    ELSE "Ll"

\* [712, 716]: the stress marks; [865, 860]: the tie bars
STRESS == {712, 716}
TIE_BARS == {865, 860}

IndexError == [raised |-> "IndexError", value |-> <<>>]

\* Mutant of PrependToLast: result[-1] = result[-1] + prefix
AppendToLast(result, prefix) ==
    [result EXCEPT ![Len(result)] = @ \o prefix]

\* result[-1] = prefix + result[-1]
PrependToLast(result, prefix) ==
    [result EXCEPT ![Len(result)] = prefix \o @]

\* The loop  for grapheme in reversed(graphemes)  of combine_modifiers, at the
\* cluster with (1-based) index i, so that count is i - 1 once decremented.
RECURSIVE combine_reversed(_, _, _, _)
combine_reversed(gs, i, result, temp) ==
    IF i = 0 THEN [raised |-> "none", value |-> result]
    ELSE LET grapheme == gs[i]
             count == i - 1
             single == Len(grapheme) = 1
         IN  IF single /\ category(grapheme[1]) = "Lm" /\ grapheme[1] \notin STRESS
             THEN IF count = 0
                  THEN IF result = <<>> THEN IndexError
                       ELSE combine_reversed(gs, i - 1,
                                PrependToLast(result, grapheme \o temp), grapheme \o temp)
                  ELSE combine_reversed(gs, i - 1, result, grapheme \o temp)
             ELSE IF single /\ grapheme[1] \in STRESS
             THEN IF result = <<>> THEN IndexError
                  ELSE combine_reversed(gs, i - 1, PrependToLast(result, grapheme), <<>>)
             ELSE IF single /\ category(grapheme[1]) = "Sk" /\ result = <<>>
             THEN combine_reversed(gs, i - 1, <<grapheme>>, <<>>)
             ELSE IF /\ single
                     /\ category(grapheme[1]) = "Sk"
                     /\ category(result[Len(result)][1]) = "Sk"
             THEN combine_reversed(gs, i - 1, PrependToLast(result, grapheme), <<>>)
             ELSE combine_reversed(gs, i - 1, Append(result, grapheme \o temp), <<>>)

\* result[::-1]
Reverse(xs) == [i \in 1..Len(xs) |-> xs[Len(xs) + 1 - i]]

\* Mutant of tie_bars: a merged pair is examined again, so a chain of segments
\* ending in tie bars becomes one segment.
RECURSIVE tie_bars_again(_, _, _)
tie_bars_again(segments, i, r) ==
    IF i > Len(segments) THEN [raised |-> "none", value |-> r]
    ELSE IF segments[i][Len(segments[i])] \in TIE_BARS
    THEN IF i + 1 > Len(segments) THEN IndexError
         ELSE tie_bars_again([segments EXCEPT ![i + 1] = segments[i] \o @], i + 1, r)
    ELSE tie_bars_again(segments, i + 1, Append(r, segments[i]))

\* The loop  while i < len(segments)  of combine_modifiers (i is 1-based here).
RECURSIVE tie_bars(_, _, _)
tie_bars(segments, i, r) ==
    IF i > Len(segments) THEN [raised |-> "none", value |-> r]
    ELSE IF segments[i][Len(segments[i])] \in TIE_BARS
    THEN IF i + 1 > Len(segments) THEN IndexError
         ELSE tie_bars(segments, i + 2, Append(r, segments[i] \o segments[i + 1]))
    ELSE tie_bars(segments, i + 1, Append(r, segments[i]))

\* Tokenizer.combine_modifiers(graphemes)
combine_modifiers(gs) ==
    LET rev == combine_reversed(gs, Len(gs), <<>>, <<>>)
    IN  IF rev.raised # "none" THEN rev
        ELSE tie_bars(Reverse(rev.value), 1, <<>>)

\* re.sub of a pattern that is a literal string: the non-overlapping occurrences
\* of pattern in s, leftmost first, are replaced (pattern not empty).
RECURSIVE sub(_, _, _)
sub(pattern, replacement, s) ==
    IF s = <<>> THEN <<>>
    ELSE IF IsPrefix(pattern, s)
    THEN replacement \o sub(pattern, replacement, Drop(s, Len(pattern)))
    ELSE <<Head(s)>> \o sub(pattern, replacement, Tail(s))

RECURSIVE passes(_, _)
RECURSIVE passes_original(_, _)

\* Mutant of passes: every rule is applied to the string apply was called with.
passes_original(rs, s) ==
    IF rs = <<>> THEN <<>>
    ELSE <<sub(rs[1][1], rs[1][2], s)>> \o passes(Tail(rs), s)

\* The value of s after each  s = rule.sub(replacement, s)  of Rules.apply.
passes(rs, s) ==
    IF rs = <<>> THEN <<>>
    ELSE LET next == sub(rs[1][1], rs[1][2], s)
         IN  <<next>> \o passes(Tail(rs), next)

\* Rules.apply(s): for rule, replacement in self._rules: s = rule.sub(replacement, s)
apply(rs, s) ==
    IF rs = <<>> THEN s ELSE passes(rs, s)[Len(rs)]

\* pp(word) of Tokenizer.__call__
pp(t, frm, word) ==
    LET joined == strip(join(SEGMENT_SEPARATOR, word))
        res == IF t._rules # <<>> THEN apply(t._rules, joined) ELSE joined
    IN  IF frm # "None" THEN normalize(frm, res) ELSE res

\* Mutant of segment: an attached profile takes precedence over ipa.
segment_profile_first(t, word, col, i, h) ==
    IF t.op # <<>> THEN transform(t, word, col, h)
    ELSE IF i THEN combine_modifiers(grapheme_clusters(word))
    ELSE [raised |-> "none", value |-> grapheme_clusters(word)]

\* The branches of the loop of Tokenizer.__call__ for one word.
segment(t, word, col, i, h) ==
    IF i THEN combine_modifiers(grapheme_clusters(word))
    ELSE IF t.op # <<>> THEN transform(t, word, col, h)
    ELSE [raised |-> "none", value |-> grapheme_clusters(word)]

\* Mutant of self_after_word: the word's tokens are kept on the Tokenizer, in
\* place of its profile.
self_after_word_kept(t, tokens) == [t EXCEPT !.op = <<>>]

\* The Tokenizer after one iteration of the loop of __call__: the iteration
\* reads self.op and self._errors, appends to the local list res, and neither
\* it nor transform, grapheme_clusters, combine_modifiers or Tree.parse assigns
\* an attribute of self or of the Profile.
self_after_word(t, tokens) == t

\* The exception of the first word that raises one ("none" if none does).
RECURSIVE FirstRaised(_)
FirstRaised(res) ==
    IF res = <<>> THEN "none"
    ELSE IF Head(res).raised # "none" THEN Head(res).raised
    ELSE FirstRaised(Tail(res))

\* Tokenizer.__call__(string, column=col, form=frm, ipa=i, errors=errs);
\* unicodedata.normalize raises ValueError for a form it does not know.
__call__(t, str, col, frm, i, errs) ==
    LET ws == split(nfd(str))
        res == [k \in 1..Len(ws) |-> segment(t, ws[k], col, i, t._errors[errs])]
    IN  IF FirstRaised(res) # "none"
        THEN [raised |-> FirstRaised(res), value |-> <<>>]
        ELSE IF ws # <<>> /\ frm \notin {"None", "NFC", "NFD"}
        THEN [raised |-> "ValueError", value |-> <<>>]
        ELSE [raised |-> "none",
              value |-> join(SEPARATOR, [k \in 1..Len(ws) |-> pp(t, frm, res[k].value)])]

\* ------------------------------------------------- the Tree specification
GraphemePool == StringsUpTo(GraphemeAlphabet, MaxGraphemeLen) \ {<<>>}
Inventories == {gs \in SUBSET GraphemePool : Cardinality(gs) <= MaxGraphemes}
Words == StringsUpTo(Alphabet, MaxWordLen)

NoResult == [raised |-> FALSE, res |-> <<>>, calls |-> <<>>]

NoProfile ==
    [raised |-> "none", graphemes |-> <<>>, attrs |-> <<>>, column_labels |-> {},
     tree |-> Tree({}), warnings |-> <<>>, caller |-> <<>>]

\* No Profile is under construction.
ProfileIdle ==
    /\ specs = <<>>
    /\ text = <<>>
    /\ args = <<>>
    /\ form = "None"
    /\ via = "none"
    /\ prf = NoProfile
    /\ ppc = "idle"

NoCall == [raised |-> "none", value |-> <<>>]

\* Profile.MD is as the class statement made it, and no caller holds a result
\* of default_metadata.
MetaIdle ==
    /\ heap = MDHeap
    /\ held = <<>>

\* No Tree.parse call is inside its while loop.
LoopIdle == remainder = <<>>

\* No caller is calling a Tokenizer.
CallsIdle == inflight = <<>>

\* No Rules object is in use.
RulesIdle ==
    /\ rules = <<>>
    /\ subject = <<>>
    /\ passed = <<>>
    /\ applied = <<>>
    /\ rpc = "idle"

\* No Tokenizer is in use.
TokenizerIdle ==
    /\ config = [profile |-> FALSE, specs |-> <<>>]
    /\ tk = Tokenizer(<<>>)
    /\ string = <<>>
    /\ column = GRAPHEME_COL
    /\ errors = "replace"
    /\ ipa = FALSE
    /\ out = NoCall
    /\ kpc = "none"

\* No Tree.parse call is in progress on the empty Tree.
TreeIdle ==
    /\ graphemes = {}
    /\ tree = Tree({})
    /\ line = <<>>
    /\ error = "replace"
    /\ ret = NoResult
    /\ tpc = "idle"

TreeInit ==
    /\ MetaIdle
    /\ LoopIdle
    /\ CallsIdle
    /\ RulesIdle
    /\ ProfileIdle
    /\ TokenizerIdle
    /\ graphemes \in Inventories
    /\ tree = Tree(graphemes)
    /\ line = <<>>
    /\ error = "replace"
    /\ ret = NoResult
    /\ tpc = "idle"

\* t.parse(line, error=h)
TreeParse ==
    /\ tpc = "idle"
    /\ \E ln \in Words, h \in Handlers :
        /\ line' = ln
        /\ error' = h
        /\ ret' = parse(tree, ln, h)
        /\ tpc' = IF ret'.raised THEN "raised" ELSE "returned"
    /\ UNCHANGED <<graphemes, tree, profileVars, tokenizerVars, rulesVars, callVars, loopVars, metaVars>>

\* the caller is done with the result (or has caught the exception)
TreeDone ==
    /\ tpc \in {"returned", "raised"}
    /\ tpc' = "idle"
    /\ line' = <<>>
    /\ error' = "replace"
    /\ ret' = NoResult
    /\ UNCHANGED <<graphemes, tree, profileVars, tokenizerVars, rulesVars, callVars, loopVars, metaVars>>

TreeNext == TreeParse \/ TreeDone

SpecTree == TreeInit /\ [][TreeNext]_vars

\* --------------------------------- the Tree.parse specification, step by step
\* '', 'a'; 'ab', 'aba'; 'a', 'aa', 'bb'
LoopInventories ==
    { {},
      {<<97>>},
      {<<97, 98>>, <<97, 98, 97>>},
      {<<97>>, <<97, 97>>, <<98, 98>>} }
LoopWords == StringsUpTo(Alphabet, MaxLoopLen)

LoopInit ==
    /\ MetaIdle
    /\ CallsIdle
    /\ RulesIdle
    /\ ProfileIdle
    /\ TokenizerIdle
    /\ graphemes \in LoopInventories
    /\ tree = Tree(graphemes)
    /\ line = <<>>
    /\ error = "replace"
    /\ ret = NoResult
    /\ tpc = "idle"
    /\ remainder = <<>>

\* t.parse(line, error=h) up to the while loop:
\* res, idx = self._parse(self.root, line, 0); rem = line[idx:]
LoopEnter ==
    /\ tpc = "idle"
    /\ \E ln \in LoopWords, h \in Handlers :
        LET first == _parse(tree, ln, 0)
        IN  /\ line' = ln
            /\ error' = h
            /\ ret' = [raised |-> FALSE, res |-> first.parse, calls |-> <<>>]
            /\ remainder' = Drop(ln, first.idx)
    /\ tpc' = "parsing"
    /\ UNCHANGED <<graphemes, tree, profileVars, tokenizerVars, rulesVars, callVars, metaVars>>

\* one iteration of  while rem
LoopIterate ==
    /\ tpc = "parsing"
    /\ remainder # <<>>
    /\ LET b == _loop_body(tree, error, ret.res, remainder, ret.calls)
       IN  /\ ret' = [raised |-> b.raised, res |-> b.res, calls |-> b.calls]
           /\ remainder' = b.rem
           /\ tpc' = IF b.raised THEN "raised" ELSE "parsing"
    /\ UNCHANGED <<graphemes, tree, line, error, profileVars, tokenizerVars, rulesVars,
                   callVars, metaVars>>

\* rem is empty:  return res
LoopReturn ==
    /\ tpc = "parsing"
    /\ remainder = <<>>
    /\ tpc' = "returned"
    /\ UNCHANGED <<graphemes, tree, line, error, ret, remainder, profileVars, tokenizerVars,
                   rulesVars, callVars, metaVars>>

\* the caller is done with the result (or has caught the exception)
LoopDone ==
    /\ tpc \in {"returned", "raised"}
    /\ tpc' = "idle"
    /\ line' = <<>>
    /\ error' = "replace"
    /\ ret' = NoResult
    /\ remainder' = <<>>
    /\ UNCHANGED <<graphemes, tree, profileVars, tokenizerVars, rulesVars, callVars, metaVars>>

LoopNext == LoopEnter \/ LoopIterate \/ LoopReturn \/ LoopDone

\* The interpreter goes on with a call it has begun.
SpecLoop == LoopInit /\ [][LoopNext]_vars /\ WF_vars(LoopIterate) /\ WF_vars(LoopReturn)

\* ---------------------------------------------- the Profile specification
\* 'O' U+00E4: a column label that normalization changes
OUT == <<79, 228>>

\* Grapheme values: '', 'a', U+00E4, 'a' U+0308
GraphemeValues == {Str(<<>>), Str(<<97>>), Str(<<228>>), Str(<<97, 776>>)}
\* Attribute values: None, U+00E4, ['a', 'b']
OutValues == {None, Str(<<228>>), List(<<<<97>>, <<98>>>>)}

\* The specification mappings a caller passes: with or without 'Grapheme', with
\* or without a second column.
SpecPool ==
    {<<>>, OUT :> Str(<<228>>)}
    \cup {GRAPHEME_COL :> g : g \in GraphemeValues}
    \cup {(GRAPHEME_COL :> g) @@ (OUT :> o) : g \in GraphemeValues, o \in OutValues}

SpecLists == UNION {[1..n -> SpecPool] : n \in 0..MaxSpecs}
Forms == {"None", "NFC", "NFD"}
\* 'a', 'b', U+0308
TextAlphabet == {97, 98, 776}
Texts == StringsUpTo(TextAlphabet, MaxTextLen)

ProfileInit ==
    /\ MetaIdle
    /\ LoopIdle
    /\ CallsIdle
    /\ RulesIdle
    /\ TreeIdle
    /\ TokenizerIdle
    /\ \/ specs \in SpecLists /\ text = <<>>
       \/ specs = <<>> /\ text \in Texts
    /\ args = <<>>
    /\ form = "None"
    /\ via = "none"
    /\ prf = NoProfile
    /\ ppc = "idle"

\* Profile(*specs, form=f)
ProfileNew ==
    /\ ppc = "idle"
    /\ \E f \in Forms :
        /\ form' = f
        /\ prf' = Profile(specs, f)
    /\ via' = "Profile"
    /\ args' = specs
    /\ specs' = prf'.caller
    /\ ppc' = IF prf'.raised = "none" THEN "constructed" ELSE "raised"
    /\ UNCHANGED <<text, treeVars, tokenizerVars, rulesVars, callVars, loopVars, metaVars>>

\* Profile.from_text(text)
ProfileFromText ==
    /\ ppc = "idle"
    /\ args' = from_text_specs(text)
    /\ form' = "None"
    /\ via' = "from_text"
    /\ prf' = from_text(text)
    /\ ppc' = IF prf'.raised = "none" THEN "constructed" ELSE "raised"
    /\ UNCHANGED <<specs, text, treeVars, tokenizerVars, rulesVars, callVars, loopVars, metaVars>>

\* the caller is done with the Profile (or has caught the exception); the
\* mappings it passed stay as the constructor left them
ProfileDone ==
    /\ ppc \in {"constructed", "raised"}
    /\ ppc' = "idle"
    /\ args' = <<>>
    /\ form' = "None"
    /\ via' = "none"
    /\ prf' = NoProfile
    /\ UNCHANGED <<specs, text, treeVars, tokenizerVars, rulesVars, callVars, loopVars, metaVars>>

ProfileNext == ProfileNew \/ ProfileFromText \/ ProfileDone

SpecProfile == ProfileInit /\ [][ProfileNext]_vars

\* -------------------------------------------- the Tokenizer specification
\* The specifications profiles are made of: 'aa' with a list in a second
\* column, 'a' alone, 'a' U+0308 with a string, U+0308 with 'NULL', and one
\* without 'Grapheme'.
TokenizerSpecPool ==
    << (GRAPHEME_COL :> Str(<<97, 97>>)) @@ (OUT :> List(<<<<98>>, <<97>>>>)),
       GRAPHEME_COL :> Str(<<97>>),
       (GRAPHEME_COL :> Str(<<97, 776>>)) @@ (OUT :> Str(<<98>>)),
       (GRAPHEME_COL :> Str(<<776>>)) @@ (OUT :> Str(NULL)),
       OUT :> Str(<<98>>) >>

\* The specifications of the pool at the indices in I, in the order of the pool.
RECURSIVE Pick(_, _)
Pick(I, n) ==
    IF n = 0 THEN <<>>
    ELSE IF n \in I THEN Append(Pick(I, n - 1), TokenizerSpecPool[n])
    ELSE Pick(I, n - 1)

TokenizerProfiles ==
    {[profile |-> TRUE, specs |-> Pick(I, Len(TokenizerSpecPool))] :
        I \in SUBSET (1..Len(TokenizerSpecPool))}

\* 'a', U+00E4, ' ', '\t'
StringAlphabet == {97, 228, 32, 9}
Strings == StringsUpTo(StringAlphabet, MaxStringLen)
Columns == {GRAPHEME_COL, OUT}
Policies == {"strict", "replace", "ignore"}

TokenizerInit ==
    /\ MetaIdle
    /\ LoopIdle
    /\ CallsIdle
    /\ RulesIdle
    /\ TreeIdle
    /\ ProfileIdle
    /\ config \in TokenizerProfiles \cup {[profile |-> FALSE, specs |-> <<>>]}
    /\ tk = Tokenizer(<<>>)
    /\ string = <<>>
    /\ column = GRAPHEME_COL
    /\ errors = "replace"
    /\ ipa = FALSE
    /\ out = NoCall
    /\ kpc = "new"

\* Tokenizer(profile=Profile(*specs))  or  Tokenizer(); graphemes and tree are
\* those of the attached Profile.
TokenizerNew ==
    /\ kpc = "new"
    /\ LET p == tokenizer_Profile(config.specs)
       IN  IF ~config.profile
           THEN /\ tk' = Tokenizer(<<>>)
                /\ kpc' = "idle"
                /\ UNCHANGED <<graphemes, tree, rulesVars, callVars, loopVars, metaVars>>
           ELSE IF p.raised # "none"
           THEN /\ kpc' = "failed"
                /\ UNCHANGED <<tk, graphemes, tree, rulesVars, callVars, loopVars, metaVars>>
           ELSE /\ tk' = Tokenizer(<<p>>)
                /\ kpc' = "idle"
                /\ graphemes' = Range(p.graphemes)
                /\ tree' = p.tree
    /\ UNCHANGED <<config, string, column, errors, ipa, out, line, error, ret, tpc, profileVars, rulesVars, callVars, loopVars, metaVars>>

\* tk(string, column=col, errors=errs)
TokenizerCall ==
    /\ kpc = "idle"
    /\ \E str \in Strings, col \in Columns, errs \in Policies :
        /\ string' = str
        /\ column' = col
        /\ errors' = errs
        /\ out' = __call__(tk, str, col, "None", FALSE, errs)
    /\ kpc' = IF out'.raised = "none" THEN "returned" ELSE "raised"
    /\ UNCHANGED <<config, tk, ipa, treeVars, profileVars, rulesVars, callVars, loopVars, metaVars>>

\* the caller is done with the result (or has caught the exception)
TokenizerDone ==
    /\ kpc \in {"returned", "raised"}
    /\ kpc' = "idle"
    /\ string' = <<>>
    /\ column' = GRAPHEME_COL
    /\ errors' = "replace"
    /\ ipa' = FALSE
    /\ out' = NoCall
    /\ UNCHANGED <<config, tk, treeVars, profileVars, rulesVars, callVars, loopVars, metaVars>>

TokenizerNext == TokenizerNew \/ TokenizerCall \/ TokenizerDone

SpecTokenizer == TokenizerInit /\ [][TokenizerNext]_vars

\* ------------------------------------------- the mode-dispatch specification
\* The specifications profiles are made of here: 'a' with a second column, and
\* 'a' U+02B0.
ModeSpecPool ==
    << (GRAPHEME_COL :> Str(<<97>>)) @@ (OUT :> Str(<<98>>)),
       GRAPHEME_COL :> Str(<<97, 688>>) >>

RECURSIVE ModePick(_, _)
ModePick(I, n) ==
    IF n = 0 THEN <<>>
    ELSE IF n \in I THEN Append(ModePick(I, n - 1), ModeSpecPool[n])
    ELSE ModePick(I, n - 1)

ModeProfiles ==
    {[profile |-> TRUE, specs |-> ModePick(I, Len(ModeSpecPool))] :
        I \in SUBSET (1..Len(ModeSpecPool))}

\* 'a', U+02B0, ' '
ModeAlphabet == {97, 688, 32}
ModeStrings == StringsUpTo(ModeAlphabet, MaxModeLen)

ModeInit ==
    /\ MetaIdle
    /\ LoopIdle
    /\ CallsIdle
    /\ RulesIdle
    /\ TreeIdle
    /\ ProfileIdle
    /\ config \in ModeProfiles \cup {[profile |-> FALSE, specs |-> <<>>]}
    /\ tk = Tokenizer(<<>>)
    /\ string = <<>>
    /\ column = GRAPHEME_COL
    /\ errors = "replace"
    /\ ipa = FALSE
    /\ out = NoCall
    /\ kpc = "new"

\* tk(string, column=col, ipa=i, errors=errs)
ModeCall ==
    /\ kpc = "idle"
    /\ \E str \in ModeStrings, col \in Columns, i \in BOOLEAN, errs \in Policies :
        /\ string' = str
        /\ column' = col
        /\ ipa' = i
        /\ errors' = errs
        /\ out' = __call__(tk, str, col, "None", i, errs)
    /\ kpc' = IF out'.raised = "none" THEN "returned" ELSE "raised"
    /\ UNCHANGED <<config, tk, treeVars, profileVars, rulesVars, callVars, loopVars, metaVars>>

ModeNext == TokenizerNew \/ ModeCall \/ TokenizerDone

SpecMode == ModeInit /\ [][ModeNext]_vars

\* -------------------------------------------------- the IPA specification
\* 'a', U+02B0, the stress marks U+02C8 and U+02CC, the tone letters U+02E7 and
\* U+02E9, and U+0308, which makes a cluster of two code points with whatever
\* stands before it.
IPAAlphabet == {97, 688, 712, 716, 743, 745, 776}
IPAStrings == StringsUpTo(IPAAlphabet, MaxIPALen)

\* Tokenizer()
IPAInit ==
    /\ MetaIdle
    /\ LoopIdle
    /\ CallsIdle
    /\ RulesIdle
    /\ TreeIdle
    /\ ProfileIdle
    /\ config = [profile |-> FALSE, specs |-> <<>>]
    /\ tk = Tokenizer(<<>>)
    /\ string = <<>>
    /\ column = GRAPHEME_COL
    /\ errors = "replace"
    /\ ipa = FALSE
    /\ out = NoCall
    /\ kpc = "new"

\* tk(string, ipa=True)
IPACall ==
    /\ kpc = "idle"
    /\ \E str \in IPAStrings :
        /\ string' = str
        /\ ipa' = TRUE
        /\ out' = __call__(tk, str, GRAPHEME_COL, "None", TRUE, "replace")
    /\ kpc' = IF out'.raised = "none" THEN "returned" ELSE "raised"
    /\ UNCHANGED <<config, tk, column, errors, treeVars, profileVars, rulesVars, callVars, loopVars, metaVars>>

IPANext == TokenizerNew \/ IPACall \/ TokenizerDone

SpecIPA == IPAInit /\ [][IPANext]_vars

\* ------------------------------------------------- the tie-bar specification
\* 'a', the tie bars U+0361 and U+035C, and the stress mark U+02C8.
TieAlphabet == {97, 865, 860, 712}
TieStrings == StringsUpTo(TieAlphabet, MaxTieLen)

\* tk(string, ipa=True)
TieCall ==
    /\ kpc = "idle"
    /\ \E str \in TieStrings :
        /\ string' = str
        /\ ipa' = TRUE
        /\ out' = __call__(tk, str, GRAPHEME_COL, "None", TRUE, "replace")
    /\ kpc' = IF out'.raised = "none" THEN "returned" ELSE "raised"
    /\ UNCHANGED <<config, tk, column, errors, treeVars, profileVars, rulesVars,
                   callVars, loopVars, metaVars>>

TieNext == TokenizerNew \/ TieCall \/ TokenizerDone

SpecTie == IPAInit /\ [][TieNext]_vars

\* ------------------------------------------- the interleaved-calls specification
\* Two callers share one Tokenizer.
Callers == {1, 2}

\* Its profile: 'aa' -> [b, a] and 'a' -> 'b'; its rule: b -> ab.
CallsSpecs ==
    << (GRAPHEME_COL :> Str(<<97, 97>>)) @@ (OUT :> List(<<<<98>>, <<97>>>>)),
       (GRAPHEME_COL :> Str(<<97>>)) @@ (OUT :> Str(<<98>>)) >>
CallsRules == << <<(<<98>>), (<<97, 98>>)>> >>
CallsConfigs ==
    { [profile |-> TRUE, specs |-> CallsSpecs, rules |-> CallsRules],
      [profile |-> FALSE, specs |-> <<>>, rules |-> <<>>] }

\* '', 'a', 'aab', 'a b', 'ab a', 'b' tab 'aa'
CallsStrings ==
    { <<>>, <<97>>, <<97, 97, 98>>, <<97, 32, 98>>, <<97, 98, 32, 97>>,
      <<98, 9, 97, 97>> }

\* A caller that is not in a call.
NoThread ==
    [pc |-> "idle", string |-> <<>>, column |-> GRAPHEME_COL, errors |-> "replace",
     words |-> <<>>, res |-> <<>>, out |-> NoCall]

CallsInit ==
    /\ MetaIdle
    /\ LoopIdle
    /\ RulesIdle
    /\ TreeIdle
    /\ ProfileIdle
    /\ config \in CallsConfigs
    /\ tk = Tokenizer(<<>>)
    /\ string = <<>>
    /\ column = GRAPHEME_COL
    /\ errors = "replace"
    /\ ipa = FALSE
    /\ out = NoCall
    /\ kpc = "new"
    /\ inflight = [c \in Callers |-> NoThread]

\* Tokenizer(profile=Profile(*specs), rules=...)  or  Tokenizer()
CallsNew ==
    /\ kpc = "new"
    /\ LET p == tokenizer_Profile(config.specs)
       IN  IF ~config.profile
           THEN /\ tk' = TokenizerWithRules(<<>>, config.rules)
                /\ UNCHANGED <<graphemes, tree, loopVars, metaVars>>
           ELSE /\ tk' = TokenizerWithRules(<<p>>, config.rules)
                /\ graphemes' = Range(p.graphemes)
                /\ tree' = p.tree
    /\ kpc' = "idle"
    /\ UNCHANGED <<config, string, column, errors, ipa, out, line, error, ret, tpc,
                   profileVars, rulesVars, callVars, loopVars, metaVars>>

\* caller c enters tk(string, column=col, errors=errs):
\* res = [], and the words of nfd(string).split() are to be iterated over
CallBegin(c) ==
    /\ kpc = "idle"
    /\ inflight[c].pc = "idle"
    /\ \E str \in CallsStrings, col \in Columns, errs \in Policies :
        inflight' = [inflight EXCEPT ![c] =
                    [pc |-> "running", string |-> str, column |-> col, errors |-> errs,
                     words |-> split(nfd(str)), res |-> <<>>, out |-> NoCall]]
    /\ UNCHANGED <<treeVars, profileVars, tokenizerVars, rulesVars, loopVars, metaVars>>

\* one iteration of the loop of c's call: the next word is segmented and its
\* tokens are appended to c's res, or the exception leaves the call
CallWord(c) ==
    /\ inflight[c].pc = "running"
    /\ Len(inflight[c].res) < Len(inflight[c].words)
    /\ LET me == inflight[c]
           r == segment(tk, me.words[Len(me.res) + 1], me.column, FALSE,
                        tk._errors[me.errors])
       IN  /\ inflight' = [inflight EXCEPT ![c] =
                        IF r.raised # "none"
                        THEN [me EXCEPT !.pc = "raised",
                                        !.out = [raised |-> r.raised, value |-> <<>>]]
                        ELSE [me EXCEPT !.res = Append(me.res, r.value)]]
           /\ tk' = self_after_word(tk, r.value)
    /\ UNCHANGED <<config, string, column, errors, ipa, out, kpc, treeVars,
                   profileVars, rulesVars, loopVars, metaVars>>

\* the loop of c's call is over:  return separator.join(pp(word) for word in res)
CallReturn(c) ==
    /\ inflight[c].pc = "running"
    /\ Len(inflight[c].res) = Len(inflight[c].words)
    /\ LET me == inflight[c]
       IN  inflight' = [inflight EXCEPT ![c] =
                [me EXCEPT !.pc = "returned",
                           !.out = [raised |-> "none",
                                    value |-> join(SEPARATOR,
                                        [k \in 1..Len(me.res) |-> pp(tk, "None", me.res[k])])]]]
    /\ UNCHANGED <<treeVars, profileVars, tokenizerVars, rulesVars, loopVars, metaVars>>

\* c is done with the result (or has caught the exception)
CallDone(c) ==
    /\ inflight[c].pc \in {"returned", "raised"}
    /\ inflight' = [inflight EXCEPT ![c] = NoThread]
    /\ UNCHANGED <<treeVars, profileVars, tokenizerVars, rulesVars, loopVars, metaVars>>

CallsNext ==
    \/ CallsNew
    \/ \E c \in Callers : CallBegin(c)
    \/ \E c \in Callers : CallWord(c)
    \/ \E c \in Callers : CallReturn(c)
    \/ \E c \in Callers : CallDone(c)

SpecCalls == CallsInit /\ [][CallsNext]_vars

\* --------------------------------------------- the metadata specification
\* How many results of default_metadata a caller keeps.
MaxHeld == 3

\* File names: 'a', 'b', 'ab'
FileNames == {Str(<<97>>), Str(<<98>>), Str(<<97, 98>>)}

MetaInit ==
    /\ LoopIdle
    /\ CallsIdle
    /\ RulesIdle
    /\ TreeIdle
    /\ ProfileIdle
    /\ TokenizerIdle
    /\ heap = MDHeap
    /\ held = <<>>

\* md = Profile.default_metadata(fname), or Profile.default_metadata(); the
\* caller keeps md, and remembers the url it asked for
MetaDefault ==
    /\ Len(held) < MaxHeld
    /\ \E fname \in FileNames \cup {None} :
        LET r == default_metadata(fname, heap)
        IN  /\ heap' = r.heap
            /\ held' = Append(held, [md |-> r.md, url |-> str_or_empty(fname)])
    /\ UNCHANGED <<treeVars, profileVars, tokenizerVars, rulesVars, callVars, loopVars>>

\* Profile.from_file(fname): for a file that is a JSON metadata description
\* TableGroup.from_file succeeds; for any other file JSONDecodeError is caught
\* and the table group is made of default_metadata(fname). The rows are read
\* by the table group; the mapping is not kept.
MetaFromFile ==
    /\ \E fname \in FileNames, json \in BOOLEAN :
        heap' = IF json THEN heap ELSE default_metadata(fname, heap).heap
    /\ UNCHANGED <<held, treeVars, profileVars, tokenizerVars, rulesVars, callVars, loopVars>>

\* str(profile): the table group the lines are written with is made of
\* default_metadata()
MetaStr ==
    /\ heap' = default_metadata(None, heap).heap
    /\ UNCHANGED <<held, treeVars, profileVars, tokenizerVars, rulesVars, callVars, loopVars>>

MetaNext == MetaDefault \/ MetaFromFile \/ MetaStr

SpecMetadata == MetaInit /\ [][MetaNext]_vars

\* ------------------------------------------------ the Rules specification
\* The rules a Rules object is made of: a -> b, b -> a, a -> aa, aa -> a,
\* ab -> ba.
RulePool ==
    { <<(<<97>>), (<<98>>)>>,
      <<(<<98>>), (<<97>>)>>,
      <<(<<97>>), (<<97, 97>>)>>,
      <<(<<97, 97>>), (<<97>>)>>,
      <<(<<97, 98>>), (<<98, 97>>)>> }
RuleLists == UNION {[1..n -> RulePool] : n \in 0..MaxRules}
Subjects == StringsUpTo(GraphemeAlphabet, MaxSubjectLen)

\* Rules(*rules)
RulesInit ==
    /\ MetaIdle
    /\ LoopIdle
    /\ CallsIdle
    /\ TreeIdle
    /\ ProfileIdle
    /\ TokenizerIdle
    /\ rules \in RuleLists
    /\ subject = <<>>
    /\ passed = <<>>
    /\ applied = <<>>
    /\ rpc = "idle"

\* rules.apply(s)
RulesApply ==
    /\ rpc = "idle"
    /\ \E s \in Subjects :
        /\ subject' = s
        /\ passed' = passes(rules, s)
        /\ applied' = apply(rules, s)
    /\ rpc' = "returned"
    /\ UNCHANGED <<rules, treeVars, profileVars, tokenizerVars, callVars, loopVars, metaVars>>

\* the caller is done with the result
RulesDone ==
    /\ rpc = "returned"
    /\ rpc' = "idle"
    /\ subject' = <<>>
    /\ passed' = <<>>
    /\ applied' = <<>>
    /\ UNCHANGED <<rules, treeVars, profileVars, tokenizerVars, callVars, loopVars, metaVars>>

RulesNext == RulesApply \/ RulesDone

SpecRules == RulesInit /\ [][RulesNext]_vars

\* ======================================================= Tree.parse: claims
\* A token of a result is a matched grapheme iff it is registered (handlers
\* return the marker, '#', '' or, for ident, a code point that matched nothing).
IsGrapheme(tok) == tok \in graphemes

\* Code points of the word a token stands for: its own length for a grapheme,
\* one for a token the handler returned.
SourceLen(tok) == IF IsGrapheme(tok) THEN Len(tok) ELSE 1

RECURSIVE SourceLenSum(_)
SourceLenSum(tokens) ==
    IF tokens = <<>> THEN 0 ELSE SourceLen(Head(tokens)) + SourceLenSum(Tail(tokens))

\* Where in the word token i of the result starts (0-based offset).
Pos(tokens, i) == SourceLenSum(SubSeq(tokens, 1, i - 1))

\* How many handler tokens there are among the first i tokens.
ErrCount(tokens, i) == Cardinality({j \in 1..i : ~IsGrapheme(tokens[j])})

\* The tokens with each handler token put back as the code point it was invoked on.
PutBack(tokens, calls) ==
    [i \in 1..Len(tokens) |->
        IF IsGrapheme(tokens[i]) THEN tokens[i] ELSE <<calls[ErrCount(tokens, i)]>>]

\* The registered graphemes that are a prefix of s.
Matches(s) == {g \in graphemes : IsPrefix(g, s)}

\* C1: coverage. When Tree.parse returns, putting each handler token back as the
\* code point the handler was invoked on and concatenating the tokens gives the
\* word; with the identity handler the concatenation of the tokens is the word.
C1_Coverage ==
    tpc = "returned" =>
        /\ ErrCount(ret.res, Len(ret.res)) = Len(ret.calls)
        /\ Concat(PutBack(ret.res, ret.calls)) = line
        /\ (error = "ident" => Concat(ret.res) = line)

\* C1 happens: a word with matched graphemes on both sides of an unmatched code
\* point has been parsed.
C1_Witness ==
    /\ tpc = "returned"
    /\ Len(ret.calls) >= 1
    /\ Len(ret.res) >= 3
    /\ IsGrapheme(ret.res[1])
    /\ IsGrapheme(ret.res[Len(ret.res)])

\* C2: longest match. Every matched grapheme of the result is a prefix of the rest
\* of the word at its position, and no registered grapheme that is a prefix of
\* that rest is longer.
C2_LongestMatch ==
    tpc = "returned" =>
        \A i \in 1..Len(ret.res) :
            IsGrapheme(ret.res[i]) =>
                LET rest == Drop(line, Pos(ret.res, i))
                IN  /\ ret.res[i] \in Matches(rest)
                    /\ \A g \in Matches(rest) : Len(g) <= Len(ret.res[i])

\* C2 happens: the shape of  {t, o, o:}: 'to:t' -> [t, o:, t]  (here {a, b, ba}
\* and 'aba' cannot be told from it by the parser: a grapheme and a longer one
\* that extends it both match, and the longer one is emitted).
C2_Witness ==
    /\ tpc = "returned"
    /\ \E i \in 1..Len(ret.res) :
        /\ IsGrapheme(ret.res[i])
        /\ Len(ret.res[i]) = 2
        /\ SubSeq(ret.res[i], 1, 1) \in Matches(Drop(line, Pos(ret.res, i)))
        /\ i < Len(ret.res)

\* Whether s is a concatenation of registered graphemes.
RECURSIVE Decomposable(_)
Decomposable(s) ==
    s = <<>> \/ \E g \in Matches(s) : Decomposable(Drop(s, Len(g)))

\* The longest registered grapheme that is a prefix of s (Matches(s) not empty).
Longest(s) == CHOOSE g \in Matches(s) : \A o \in Matches(s) : Len(o) <= Len(g)

\* Whether taking the longest registered prefix again and again consumes s.
RECURSIVE GreedyCovers(_)
GreedyCovers(s) ==
    s = <<>> \/ (Matches(s) # {} /\ GreedyCovers(Drop(s, Len(Longest(s)))))

\* C3 as claimed: a word that is a concatenation of registered graphemes is
\* parsed with no invocation of the error handler.
C3_Claimed ==
    (tpc \in {"returned", "raised"} /\ Decomposable(line)) => ret.calls = <<>>

\* C3 amended: _parse keeps the terminal found last whatever its subparse
\* consumes, so the handler is not invoked exactly when taking the longest
\* registered prefix again and again consumes the whole word.
C3_Greedy ==
    tpc \in {"returned", "raised"} => (ret.calls = <<>> <=> GreedyCovers(line))

\* C3 happens: a word that is a concatenation of registered graphemes, which the
\* longest-prefix walk does not consume, has been parsed.
C3_Witness ==
    /\ tpc = "returned"
    /\ Decomposable(line)
    /\ ~GreedyCovers(line)
    /\ ret.calls # <<>>

\* C4: error substitution. Every handler token stands at a position where no
\* registered grapheme is a prefix of the rest of the word, is what the handler
\* returns for the one code point at that position, and that code point is the
\* handler's invocation of the same rank; the tokens account for the whole word,
\* one code point per handler token.
C4_ErrorSubstitution ==
    tpc = "returned" =>
        /\ SourceLenSum(ret.res) = Len(line)
        /\ ErrCount(ret.res, Len(ret.res)) = Len(ret.calls)
        /\ \A i \in 1..Len(ret.res) :
            ~IsGrapheme(ret.res[i]) =>
                LET p == Pos(ret.res, i)
                IN  /\ p < Len(line)
                    /\ Matches(Drop(line, p)) = {}
                    /\ ret.calls[ErrCount(ret.res, i)] = line[p + 1]
                    /\ ret.res[i] = CallHandler(error, line[p + 1]).value

\* C4 happens: the shape of  'to:t=o:' -> [t, o:, t, marker, o:]: a grapheme, an
\* unmatched code point answered by the marker or by '#', and a grapheme matched
\* again right after it.
C4_Witness ==
    /\ tpc = "returned"
    /\ error \in {"replace", "hash"}
    /\ \E i \in 2..(Len(ret.res) - 1) :
        /\ IsGrapheme(ret.res[i - 1])
        /\ ret.res[i] = (IF error = "hash" THEN HASH ELSE REPLACEMENT_MARKER)
        /\ IsGrapheme(ret.res[i + 1])

\* The word without the code points at which no registered grapheme matches.
RECURSIVE WithoutUnmatched(_)
WithoutUnmatched(s) ==
    IF s = <<>> THEN <<>>
    ELSE IF Matches(s) = {} THEN WithoutUnmatched(Tail(s))
    ELSE Longest(s) \o WithoutUnmatched(Drop(s, Len(Longest(s))))

\* C6: under ignore the tokens concatenate to the word without its unmatched code
\* points, and the matched graphemes are those of the replace handler, in order.
C6_Ignore ==
    (tpc = "returned" /\ error = "ignore") =>
        /\ Concat(ret.res) = WithoutUnmatched(line)
        /\ SelectSeq(ret.res, IsGrapheme)
             = SelectSeq(parse(tree, line, "replace").res, IsGrapheme)

\* C6 happens: a word with unmatched code points and matched graphemes has been
\* parsed under ignore.
C6_Witness ==
    /\ tpc = "returned"
    /\ error = "ignore"
    /\ ret.calls # <<>>
    /\ Concat(ret.res) # <<>>
    /\ Concat(ret.res) # line

\* ========================================================= Profile: claims
\* The grapheme a specification carries once the form is applied to it.
GraphemeOf(spec) ==
    LET val == spec[GRAPHEME_COL]
    IN  IF form # "None" /\ val.t = "str" THEN normalize(form, val.v[1]) ELSE val.v[1]

\* A specification with the 'Grapheme' key and a grapheme that is not empty.
WellFormed(spec) ==
    /\ GRAPHEME_COL \in DOMAIN spec
    /\ spec[GRAPHEME_COL].t = "str"
    /\ GraphemeOf(spec) # <<>>

\* C7: construction raises ValueError and yields no Profile if a specification
\* lacks 'Grapheme' or has an empty grapheme, and succeeds otherwise.
C7_Claimed ==
    via = "Profile" =>
        IF \E i \in 1..Len(args) : ~WellFormed(args[i])
        THEN ppc = "raised" /\ prf.raised = "ValueError" /\ prf.graphemes = <<>>
        ELSE ppc = "constructed"

\* The attributes of a specification as the Profile keeps them.
AttributesOf(spec) ==
    Without(IF form # "None" THEN NormalizeSpec(form, spec) ELSE spec, GRAPHEME_COL)

\* The specifications (by index) whose grapheme an earlier one carries too.
Duplicates == {i \in 1..Len(args) :
                 \E j \in 1..(i - 1) : GraphemeOf(args[j]) = GraphemeOf(args[i])}

FirstOccurrence(g) == CHOOSE i \in 1..Len(args) :
    /\ GraphemeOf(args[i]) = g
    /\ \A j \in 1..(i - 1) : GraphemeOf(args[j]) # g

\* C8: with duplicate graphemes among well-formed specifications construction
\* does not fail; the Profile has one entry per distinct grapheme, in order of
\* first occurrence, with the first occurrence's attributes, and one warning per
\* later duplicate, naming line i + 2 (0-based i).
C8_Claimed ==
    (/\ via = "Profile"
     /\ \A i \in 1..Len(args) : WellFormed(args[i])
     /\ Duplicates # {}) =>
        /\ ppc = "constructed"
        /\ prf.graphemes = Distinct([i \in 1..Len(args) |-> GraphemeOf(args[i])])
        /\ \A g \in Range(prf.graphemes) :
            prf.attrs[g] = AttributesOf(args[FirstOccurrence(g)])
        /\ Len(prf.warnings) = Cardinality(Duplicates)
        /\ \A k \in 1..Len(prf.warnings) :
            /\ prf.warnings[k].line - 1 \in Duplicates
            /\ prf.warnings[k].grapheme = GraphemeOf(args[prf.warnings[k].line - 1])
            /\ k > 1 => prf.warnings[k - 1].line < prf.warnings[k].line

\* How often cluster g occurs in the text.
Occurrences(g) ==
    LET cl == grapheme_pattern_findall(text)
    IN  Cardinality({j \in 1..Len(cl) : cl[j] = g})

\* Where cluster g occurs first in the text (counted in clusters).
FirstCluster(g) ==
    LET cl == grapheme_pattern_findall(text)
    IN  CHOOSE j \in 1..Len(cl) : cl[j] = g /\ \A k \in 1..(j - 1) : cl[k] # g

RECURSIVE SumOccurrences(_)
SumOccurrences(gs) ==
    IF gs = <<>> THEN 0 ELSE Occurrences(Head(gs)) + SumOccurrences(Tail(gs))

\* C9: Profile.from_text(text) has one entry per distinct grapheme cluster of the
\* text, with its number of occurrences as 'frequency' and itself as 'mapping';
\* the frequencies sum to the number of clusters; the entries are in descending
\* frequency, ties in order of first occurrence.
C9_FromText ==
    via = "from_text" =>
        LET cl == grapheme_pattern_findall(text)
            gs == prf.graphemes
        IN  /\ ppc = "constructed"
            /\ Range(gs) = Range(cl)
            /\ Len(gs) = Cardinality(Range(cl))
            /\ \A g \in Range(gs) :
                /\ prf.attrs[g][FREQUENCY] = Num(Occurrences(g))
                /\ prf.attrs[g][MAPPING] = Str(g)
            /\ SumOccurrences(gs) = Len(cl)
            /\ \A i, j \in 1..Len(gs) :
                i < j =>
                    \/ Occurrences(gs[i]) > Occurrences(gs[j])
                    \/ /\ Occurrences(gs[i]) = Occurrences(gs[j])
                       /\ FirstCluster(gs[i]) < FirstCluster(gs[j])

\* C9 happens: as in from_text('abcdabcab'), a cluster recorded with frequency 3
\* although another cluster comes first in the text.
C9_Witness ==
    /\ via = "from_text"
    /\ ppc = "constructed"
    /\ Len(prf.graphemes) = 2
    /\ prf.attrs[prf.graphemes[1]][FREQUENCY] = Num(3)
    /\ FirstCluster(prf.graphemes[2]) = 1

\* ======================================================= Tokenizer: claims
\* Where the whitespace-delimited words of s start and end.
WordStarts(s) ==
    {i \in 1..Len(s) : s[i] \notin Whitespace /\ (i = 1 \/ s[i - 1] \in Whitespace)}
WordEnds(s) ==
    {i \in 1..Len(s) : s[i] \notin Whitespace /\ (i = Len(s) \/ s[i + 1] \in Whitespace)}

\* The k-th smallest element of a set of positions.
Nth(S, k) == CHOOSE i \in S : Cardinality({j \in S : j < i}) = k - 1

\* The whitespace-delimited words of s, in order.
WordsOf(s) ==
    [k \in 1..Cardinality(WordStarts(s)) |->
        SubSeq(s, Nth(WordStarts(s), k), Nth(WordEnds(s), k))]

\* A Tokenizer call has been made and not yet dismissed.
Called == kpc \in {"returned", "raised"}

\* C5: strict policy. A call with errors='strict' on a Tokenizer with a profile
\* raises ValueError if a word of the normalized input has a code point the
\* longest-match parse leaves unmatched; otherwise it does what the call with
\* errors='replace' does, and (the column being one of the profile) returns.
C5_Strict ==
    (Called /\ errors = "strict" /\ tk.op # <<>>) =>
        LET ws == WordsOf(nfd(string))
        IN  IF \E k \in DOMAIN ws : ~GreedyCovers(ws[k])
            THEN kpc = "raised" /\ out.raised = "ValueError"
            ELSE /\ out = __call__(tk, string, column, "None", FALSE, "replace")
                 /\ (column \in tk.op[1].column_labels \/ ws = <<>>) =>
                        kpc = "returned"

\* C5 happens: as in t('habe', errors='strict'), a strict call has raised on an
\* input with a word the profile covers and a word it does not.
C5_Witness ==
    /\ kpc = "raised"
    /\ errors = "strict"
    /\ tk.op # <<>>
    /\ column \in tk.op[1].column_labels
    /\ LET ws == WordsOf(nfd(string))
       IN  /\ Len(ws) = 2
           /\ GreedyCovers(ws[1])
           /\ ~GreedyCovers(ws[2])

\* 'aa # a' U+0308
AA_HASH_AE == <<97, 97, 32, 35, 32, 97, 776>>

\* C10: word splitting and joining. The call fails iff the call on one of the
\* whitespace-delimited words of the normalized input fails; otherwise its
\* result is the results of the calls on the words, in order, joined with the
\* word separator, and the empty string if there is no word. The call on the
\* words of the input with one U+0020 between them does the same, so neither
\* the amount nor the kind of whitespace matters.
C10_Words ==
    Called =>
        LET ws == WordsOf(nfd(string))
            per == [k \in DOMAIN ws |-> __call__(tk, ws[k], column, "None", FALSE, errors)]
        IN  /\ kpc = "raised" <=> \E k \in DOMAIN ws : per[k].raised # "none"
            /\ kpc = "returned" =>
                out.value = join(SEPARATOR, [k \in DOMAIN ws |-> per[k].value])
            /\ ws = <<>> => (kpc = "returned" /\ out.value = <<>>)
            /\ out = __call__(tk, join(<<32>>, WordsOf(string)), column, "None", FALSE, errors)

\* C10 happens: the shape of 'uubo uubo' -> 'uu b o # uu b o': two words with a
\* tab between them, 'aa' and U+00E4, give 'aa # a' U+0308.
C10_Witness ==
    /\ kpc = "returned"
    /\ tk.op # <<>>
    /\ 9 \in Range(string)
    /\ Len(WordsOf(nfd(string))) = 2
    /\ out.value = AA_HASH_AE

\* What __call__ makes of the token lists of the words: the exception of the
\* first one that raised, else the post-processed words joined.
Assemble(res) ==
    IF FirstRaised(res) # "none"
    THEN [raised |-> FirstRaised(res), value |-> <<>>]
    ELSE [raised |-> "none",
          value |-> join(SEPARATOR, [k \in DOMAIN res |-> pp(tk, "None", res[k].value)])]

\* C11: mode dispatch. With ipa set every word goes through IPA combination of
\* its grapheme clusters, and the call does what the call with no profile, the
\* default column and the default policy does; otherwise, with a Profile
\* attached, every word goes through transform with the named policy; otherwise
\* every word is split into its grapheme clusters.
C11_ModeDispatch ==
    Called =>
        LET ws == WordsOf(nfd(string))
        IN  IF ipa
            THEN /\ out = Assemble([k \in DOMAIN ws |->
                                combine_modifiers(grapheme_pattern_findall(ws[k]))])
                 /\ out = __call__(Tokenizer(<<>>), string, GRAPHEME_COL, "None", TRUE,
                                   "replace")
            ELSE IF tk.op # <<>>
            THEN out = Assemble([k \in DOMAIN ws |->
                                transform(tk, ws[k], column, tk._errors[errors])])
            ELSE out = Assemble([k \in DOMAIN ws |->
                                [raised |-> "none",
                                 value |-> grapheme_pattern_findall(ws[k])]])

\* C11 happens: an ipa call on a Tokenizer with a Profile, a column and the
\* strict policy has returned a combined segment for a word that transform
\* raises on.
C11_Witness ==
    /\ kpc = "returned"
    /\ ipa
    /\ tk.op # <<>>
    /\ column = OUT
    /\ errors = "strict"
    /\ string = <<97, 688>>
    /\ out.value = <<97, 688>>
    /\ transform(tk, string, column, "strict").raised = "ValueError"

\* A call with a column of the profile other than 'Grapheme' has returned.
Remapped ==
    /\ kpc = "returned"
    /\ ~ipa
    /\ tk.op # <<>>
    /\ column # GRAPHEME_COL
    /\ column \in tk.op[1].column_labels

\* The tokens Tree.parse makes of word k of the input under the call's policy.
Parsed(k) ==
    parse(tk.op[1].tree, WordsOf(nfd(string))[k], tk._errors[errors]).res

\* The value the profile has for a token in the call's column (None if it has
\* none: the grapheme has no such attribute, or the token is no grapheme).
ValueOf(token) ==
    IF <<token, column>> \in DOMAIN tk.op[1].mappings
    THEN tk.op[1].mappings[<<token, column>>]
    ELSE None

\* What a token contributes as C12 has it: the elements of a sequence, the one
\* string of a string value, and the replace handler's marker for no value.
ContributionClaimed(token) ==
    LET val == ValueOf(token)
    IN  IF val.t = "list" THEN val.v
        ELSE IF val.t = "str" THEN val.v
        ELSE <<REPLACEMENT_MARKER>>

\* What a token contributes: as above, but nothing for the string 'NULL'.
Contribution(token) ==
    IF ValueOf(token) = Str(NULL) THEN <<>> ELSE ContributionClaimed(token)

\* The output of a call whose word k has the token lists toks[k].
OutputOf(toks) ==
    join(SEPARATOR, [k \in DOMAIN toks |-> strip(join(SEGMENT_SEPARATOR, toks[k]))])

\* C12 as claimed: every matched grapheme with a sequence contributes its
\* elements in order, every one with a string value exactly that one token.
C12_Claimed ==
    Remapped =>
        out.value = OutputOf([k \in DOMAIN WordsOf(nfd(string)) |->
            Concat([j \in DOMAIN Parsed(k) |-> ContributionClaimed(Parsed(k)[j])])])

\* C12 amended: a sequence contributes its elements in order at the grapheme's
\* position, a string value other than 'NULL' exactly one token, and a grapheme
\* whose value is the string 'NULL' no token at all.
C12_Remap ==
    Remapped =>
        out.value = OutputOf([k \in DOMAIN WordsOf(nfd(string)) |->
            Concat([j \in DOMAIN Parsed(k) |-> Contribution(Parsed(k)[j])])])

\* 'b a b'
B_A_B == <<98, 32, 97, 32, 98>>

\* C12 happens: the shape of  aa -> [x, y], b -> z: 'aab' -> 'x y z'  (here
\* aa -> [b, a], a U+0308 -> b: 'aa' U+00E4 -> 'b a b').
C12_Witness ==
    /\ Remapped
    /\ string = <<97, 97, 228>>
    /\ Parsed(1) = <<(<<97, 97>>), (<<97, 776>>)>>
    /\ out.value = B_A_B

\* A call with a column of the profile other than 'Grapheme' has been made.
RemapCalled ==
    /\ Called
    /\ ~ipa
    /\ tk.op # <<>>
    /\ column # GRAPHEME_COL
    /\ column \in tk.op[1].column_labels

\* The positions of word k's tokens that are matched graphemes without a value
\* in the call's column.
Valueless(k) ==
    {j \in DOMAIN Parsed(k) : IsGrapheme(Parsed(k)[j]) /\ ValueOf(Parsed(k)[j]) = None}

LabelsOfSomeSpec ==
    UNION {DOMAIN config.specs[n] : n \in DOMAIN config.specs}

\* C14 as claimed: with a Profile attached, a call that has a word to transform
\* (under a policy that does not raise itself) raises ValueError exactly when
\* the column is neither 'Grapheme' nor a label of some specification.
C14_Claimed ==
    (/\ Called
     /\ ~ipa
     /\ tk.op # <<>>
     /\ errors # "strict"
     /\ WordsOf(nfd(string)) # <<>>) =>
        (kpc = "raised" <=>
            (column # GRAPHEME_COL /\ column \notin LabelsOfSomeSpec))

\* ============================================================ Rules: claims
\* The occurrences of pattern in s that a global substitution replaces: the
\* leftmost one, then the leftmost one after it, and so on (start positions).
RECURSIVE Occurs(_, _, _)
Occurs(pattern, s, from) ==
    IF from + Len(pattern) - 1 > Len(s) THEN {}
    ELSE IF SubSeq(s, from, from + Len(pattern) - 1) = pattern
    THEN {from} \cup Occurs(pattern, s, from + Len(pattern))
    ELSE Occurs(pattern, s, from + 1)

\* s with those occurrences replaced: one global substitution pass.
OnePass(rule, s) ==
    LET at == Occurs(rule[1], s, 1)
        covered == {i \in 1..Len(s) : \E o \in at : o < i /\ i < o + Len(rule[1])}
    IN  Concat([i \in 1..Len(s) |->
            IF i \in at THEN rule[2]
            ELSE IF i \in covered THEN <<>>
            ELSE <<s[i]>>])

\* The string rule k of the call works on: the argument for the first rule, the
\* output of rule k - 1 otherwise.
InputOf(k) == IF k = 1 THEN subject ELSE passed[k - 1]

\* C15: rule pipeline. Rules.apply makes as many passes as there are rules;
\* pass k is one global substitution of rule k on the output of pass k - 1 (the
\* argument for k = 1), and the result is the output of the last pass (the
\* argument itself without rules).
C15_Pipeline ==
    rpc = "returned" =>
        /\ Len(passed) = Len(rules)
        /\ \A k \in 1..Len(rules) : passed[k] = OnePass(rules[k], InputOf(k))
        /\ applied = InputOf(Len(rules) + 1)

\* C15 happens: two rules whose order matters have been applied (the other order
\* gives another string), the second rule changed what the first had made, and
\* the result still has an occurrence of a pattern (no fixed point is sought).
C15_Witness ==
    /\ rpc = "returned"
    /\ Len(rules) = 2
    /\ applied # OnePass(rules[1], OnePass(rules[2], subject))
    /\ passed[1] # subject
    /\ passed[2] # passed[1]
    /\ passed[2] # OnePass(rules[2], subject)
    /\ \E k \in 1..2 : Occurs(rules[k][1], applied, 1) # {}


\* ================================================== IPA combination: claims
\* An IPA call has returned; its word has no whitespace, so the clusters of the
\* call are those of the normalized string and its segments are the parts of
\* the output between the segment separators.
IPAReturned == kpc = "returned" /\ ipa
Clusters == grapheme_pattern_findall(nfd(string))
Segments == split(out.value)

\* The three kinds of cluster combine_modifiers tells from the others.
PlainLm(g) == Len(g) = 1 /\ g[1] \in Lm \ STRESS
IsStress(g) == Len(g) = 1 /\ g[1] \in STRESS
IsSk(g) == Len(g) = 1 /\ g[1] \in Sk

\* part occurs in whole as a contiguous piece.
Contains(whole, part) ==
    \E from \in 1..(Len(whole) - Len(part) + 1) :
        SubSeq(whole, from, from + Len(part) - 1) = part

\* C16 (as claimed): IPA modifier letters. When an IPA call returns, every
\* modifier-letter cluster that follows another cluster is in one segment with
\* that cluster, right behind it, and modifier letters at the very start of the
\* word stand at the start of the first segment, in front of the first cluster
\* that follows them.
C16_Claimed ==
    IPAReturned =>
        /\ \A i \in 2..Len(Clusters) :
            PlainLm(Clusters[i]) =>
                \E k \in DOMAIN Segments :
                    Contains(Segments[k], Clusters[i - 1] \o Clusters[i])
        /\ \A i \in 1..(Len(Clusters) - 1) :
            (\A j \in 1..i : PlainLm(Clusters[j])) =>
                IsPrefix(Concat(SubSeq(Clusters, 1, i + 1)), Segments[1])


NotPlainLm(g) == ~PlainLm(g)
Kept == SelectSeq(Clusters, NotPlainLm)
KPos(i) == Cardinality({j \in 1..i : NotPlainLm(Clusters[j])})
SegKept == [k \in DOMAIN Segments |->
                SelectSeq(grapheme_pattern_findall(Segments[k]), NotPlainLm)]

\* The segments are the clusters regrouped, modifier letters left aside.
Regrouped == Concat(SegKept) = Kept

\* The places in Kept after which a segment ends and another begins.
Cuts == {Len(Concat(SubSeq(SegKept, 1, k))) : k \in 1..(Len(Segments) - 1)}

\* Cluster p of Kept and the one after it are in one segment.
Joined(p) == p < Len(Kept) /\ p \notin Cuts

\* Cluster p of Kept starts a segment, or has only stress marks or (with
\* tones set) tone letters of its segment before it.
Starts(p, tones) ==
    \/ p = 1
    \/ p - 1 \in Cuts
    \/ IsStress(Kept[p - 1])
    \/ tones /\ IsSk(Kept[p - 1])

C19_Claimed ==
    (Called /\ ipa /\ Len(Clusters) = 1 /\ (IsStress(Clusters[1]) \/ PlainLm(Clusters[1]))) =>
        out = [raised |-> "none", value |-> Clusters[1]]


\* ================================================ Input normalization: claims
\* The strings canonically equivalent to s, for s without U+0308 of its own:
\* each U+00E4 of s either stays or is written 'a' U+0308.
RECURSIVE Equivalents(_)
Equivalents(s) ==
    IF s = <<>> THEN {<<>>}
    ELSE LET rest == Equivalents(Tail(s))
         IN  {<<Head(s)>> \o r : r \in rest}
                \cup (IF Head(s) = 228 THEN {<<97, 776>> \o r : r \in rest} ELSE {})

\* C20: input normalization. A call does on its string what the same Tokenizer
\* does, with the same column and policy, on every canonically equivalent
\* string: the same output, or the same exception.
C20_Normalization ==
    Called =>
        \A s \in Equivalents(string) :
            /\ NFD(s) = NFD(string)
            /\ __call__(tk, s, column, "None", ipa, errors) = out

\* C20 happens: U+00E4 'a' has returned 'a' U+0308, 'a' on a Tokenizer whose
\* profile has the graphemes 'a' U+0308 and 'a'; 'a' U+0308 'a' is its
\* equivalent.
C20_Witness ==
    /\ kpc = "returned"
    /\ tk.op # <<>>
    /\ string = <<228, 97>>
    /\ Equivalents(string) = {<<228, 97>>, <<97, 776, 97>>}
    /\ column = GRAPHEME_COL
    /\ out.value = <<97, 776, 32, 97>>


\* ================================================== Stateless calls: claims
\* The Tokenizer the configuration gives when constructed afresh.
Fresh ==
    TokenizerWithRules(
        IF config.profile THEN <<tokenizer_Profile(config.specs)>> ELSE <<>>,
        config.rules)

\* C21: stateless calls. Whatever calls have been made and are in progress on
\* the Tokenizer, its Profile (graphemes, mappings, column labels, trie), rule
\* list and error-policy map are those of the construction, and a call that has
\* returned or raised has the outcome of the same call made alone on a fresh
\* Tokenizer of the same configuration.
C21_Stateless ==
    (kpc = "idle" /\ inflight # <<>>) =>
        /\ tk = Fresh
        /\ config.profile =>
            /\ graphemes = Range(Fresh.op[1].graphemes)
            /\ tree = Fresh.op[1].tree
        /\ \A c \in Callers :
            inflight[c].pc \in {"returned", "raised"} =>
                inflight[c].out = __call__(Fresh, inflight[c].string, inflight[c].column,
                                        "None", FALSE, inflight[c].errors)

\* C21 happens: caller 1 has the result of its call on 'ab a' with the second
\* column while caller 2 is between the two words of its own call.
C21_Witness ==
    /\ kpc = "idle"
    /\ inflight # <<>>
    /\ config.profile
    /\ inflight[1].pc = "returned"
    /\ inflight[1].string = <<97, 98, 32, 97>>
    /\ inflight[1].column = OUT
    /\ inflight[2].pc = "running"
    /\ Len(inflight[2].words) = 2
    /\ Len(inflight[2].res) = 1


\* ======================================================= Column remap: claims
\* What a token contributes as C22 has it: a matched grapheme its value (as in
\* C12), a token of the error policy itself.
ContributionMatchedOnly(token) ==
    IF IsGrapheme(token) THEN Contribution(token) ELSE <<token>>

\* C22 (as claimed): column remap touches matched graphemes only. The output of
\* a call with a column other than 'Grapheme' has, for each token of the parse,
\* the value of a matched grapheme and, unchanged, the token the error policy
\* gave for an unmatched code point.
C22_Claimed ==
    Remapped =>
        out.value = OutputOf([k \in DOMAIN WordsOf(nfd(string)) |->
            Concat([j \in DOMAIN Parsed(k) |-> ContributionMatchedOnly(Parsed(k)[j])])])


\* ==================================================== Post-processing: claims
\* What becomes of a word's tokens as C23 has it: they are joined with the
\* segment separator, the rules are applied to exactly that string, and the
\* result is normalized to the output form if there is one.
PostClaimed(t, frm, tokens) ==
    LET joined == join(SEGMENT_SEPARATOR, tokens)
        ruled == IF t._rules # <<>> THEN apply(t._rules, joined) ELSE joined
    IN  IF frm # "None" THEN normalize(frm, ruled) ELSE ruled

RECURSIVE RecursiveCalls(_)
RecursiveCalls(ln) ==
    UNION {{<<ln, callee>>} \cup RecursiveCalls(callee) : callee \in _parse_sublines(tree, ln)}

\* The lines Tree.parse may hand to _parse: line and its proper suffixes.
Suffixes == {Drop(line, k) : k \in 0..Len(line)}

\* Every recursive _parse call under a call of Tree.parse gets a shorter line
\* than its caller.
RecursionShortens ==
    \A ln \in Suffixes : \A call \in RecursiveCalls(ln) : Len(call[2]) < Len(call[1])

\* C24: termination. Every recursive _parse call receives a strictly shorter
\* line than its caller; every iteration of the loop of Tree.parse that the
\* handler returns from makes the remainder shorter; the call returns only
\* with an empty remainder; and every call that has been entered returns or,
\* when the handler raises, raises.
C24_Termination ==
    /\ [](tpc # "idle" => RecursionShortens)
    /\ [][(tpc = "parsing" /\ tpc' = "parsing") => Len(remainder') < Len(remainder)]_vars
    /\ [](tpc = "returned" => remainder = <<>> /\ ret = parse(tree, line, error))
    /\ (tpc = "parsing") ~> (tpc \in {"returned", "raised"})

\* C24 happens: 'cab' has been parsed with the graphemes 'a', 'aa', 'bb' in two
\* iterations of the loop, with a recursive _parse call on the way.
C24_Witness ==
    /\ tpc = "returned"
    /\ line = <<99, 97, 98>>
    /\ error = "replace"
    /\ ret.res = <<REPLACEMENT_MARKER, (<<97>>), REPLACEMENT_MARKER>>
    /\ ret.calls = <<99, 98>>
    /\ RecursiveCalls(<<97, 98>>) # {}


\* ======================================================== Tie bars: claims
\* The segments of the word after the reverse pass and the re-reversal.
Reversed == Reverse(combine_reversed(Clusters, Len(Clusters), <<>>, <<>>).value)

EndsInTieBar(seg) == seg[Len(seg)] \in TIE_BARS

\* Segment i of segs is the first of a merged pair in a forward scan that
\* passes over the second of every pair.
RECURSIVE FirstOfPair(_, _)
FirstOfPair(segs, i) ==
    /\ EndsInTieBar(segs[i])
    /\ ~(i > 1 /\ FirstOfPair(segs, i - 1))

SecondOfPair(segs, i) == i > 1 /\ FirstOfPair(segs, i - 1)

\* C25: IPA tie bars. When an IPA call returns, its segments are those of the
\* reverse pass, re-reversed, with every segment that ends in a tie bar and is
\* not itself the second of a pair concatenated with the segment after it, and
\* every other segment as it is.
C25_TieBars ==
    IPAReturned =>
        Segments = Concat([i \in DOMAIN Reversed |->
                        IF SecondOfPair(Reversed, i) THEN <<>>
                        ELSE IF FirstOfPair(Reversed, i)
                        THEN <<Reversed[i] \o Reversed[i + 1]>>
                        ELSE <<Reversed[i]>>])

\* C25 happens: 'a' U+0361, 'a' U+035C, 'a' has become 'a' U+0361 'a' U+035C,
\* 'a': the merged pair ends in a tie bar and is not merged again.
C25_Witness ==
    /\ IPAReturned
    /\ string = <<97, 865, 97, 860, 97>>
    /\ Reversed = <<(<<97, 865>>), (<<97, 860>>), (<<97>>)>>
    /\ out.value = <<97, 865, 97, 860, 32, 97>>


\* ============================================ IPA combination as a whole: claims
\* An IPA call has been made on a word (the strings here have no whitespace).
IPACalled == Called /\ ipa /\ string # <<>>

\* C26 (as claimed): IPA combination only regroups. When an IPA call returns,
\* the concatenation of its segments is the concatenation of the clusters of
\* the word.
C26_Claimed ==
    IPAReturned => Concat(Segments) = Concat(Clusters)

\* C29 (as claimed): IPA combination is total. An IPA call on a word returns a
\* list of segments; it does not raise.
C29_Claimed ==
    IPACalled => out.raised = "none"


\* ============================================ Profile normalization: claims
\* A value the data model admits, normalized to the configured form: None stays
\* None, a string is normalized, a list of strings is normalized item by item.
NormalizedValue(val) ==
    IF val.t = "str" THEN Str(normalize(form, val.v[1]))
    ELSE IF val.t = "list" THEN List([j \in DOMAIN val.v |-> normalize(form, val.v[j])])
    ELSE val

\* The attributes of a specification with every key and value normalized.
NormalizedAttributes(spec) ==
    LET ks == (DOMAIN spec) \ {GRAPHEME_COL}
    IN  [nk \in {normalize(form, k) : k \in ks} |->
            NormalizedValue(spec[CHOOSE k \in ks : normalize(form, k) = nk])]

\* C27 (as claimed): with a normalization form configured, construction
\* succeeds for all specifications whose values are None, a string or a list of
\* strings (and whose grapheme is there and not empty); the Profile has one entry
\* per distinct normalized grapheme, under the normalized attributes of its
\* first occurrence.
C27_Claimed ==
    (/\ via = "Profile"
     /\ form # "None"
     /\ \A i \in 1..Len(args) : WellFormed(args[i])) =>
        /\ ppc = "constructed"
        /\ prf.graphemes = Distinct([i \in 1..Len(args) |-> GraphemeOf(args[i])])
        /\ \A g \in Range(prf.graphemes) :
            prf.attrs[g] = NormalizedAttributes(args[FirstOccurrence(g)])

\* C28 (as claimed): construction does not modify its arguments. After
\* Profile(*specs), returned or raised, the mappings the caller holds are the
\* mappings it passed.
C28_Claimed ==
    via = "Profile" => specs = args


\* ================================================= Default metadata: claims
\* The table url of a metadata mapping, as a caller reads it now.
UrlOf(md) == heap[md.tables]

\* C30 (as claimed): the table of Profile.MD never has a 'url' entry, and the
\* table url of every result of default_metadata a caller holds is the file
\* name that call was given, whatever from_file, __str__ and default_metadata
\* calls were made since.
C30_Claimed ==
    /\ UrlOf(MD) = None
    /\ \A i \in 1..Len(held) : UrlOf(held[i].md) = Str(held[i].url)

====
